---- MODULE Spec2Model ----
(***************************************************************************)
(* The upload / mock-analysis session of src/src/App.tsx (component App).  *)
(*                                                                         *)
(* State: the React state cells model, image, isAnalyzing, result, error,  *)
(* the analyses suspended on their timer, and the object URLs handed out   *)
(* by URL.createObjectURL.  Every action is one browser event delivered to *)
(* an element the component renders in the current state (an element that  *)
(* is not rendered, or a disabled button, receives no event), followed by  *)
(* the handler the element is wired to.  React re-renders synchronously    *)
(* after each such event, so the handlers always see the current state.    *)
(*                                                                         *)
(* Strings that the code inspects (file names, MIME types, formatted       *)
(* sizes) are sequences of one-character strings.  Byte counts are         *)
(* little-endian sequences of base-1024 digits without leading zero digit  *)
(* (<<>> is 0, <<512, 1>> is 1536, <<0, 0, 0, 0, 1>> is 1024^4), because   *)
(* the interesting file sizes exceed the model checker's integer range.    *)
(* The cosmetic cells dragOver and showResult are left out.                *)
(***************************************************************************)
EXTENDS Integers, Sequences, FiniteSets, TLC

\* ------------------------------------------------------------------ bounds
\* Object URLs that URL.createObjectURL may hand out in one run.
MaxUrls == 2
\* Model uploads (distinct uploadedAt instants) in one run.
MaxClock == 2
\* Analyses that the model lets be suspended at once.
MaxInFlight == 2
\* Base-1024 digits of the byte counts that SizeSpec formats.
MaxDigits == 5

\* null; every nullable cell holds Null or a record.
Null == [null |-> TRUE]

\* ----------------------------------------------------------------- strings
Lower ==
  [c \in {"A", "N", "E", "T", "P", "I", "M", "G"} |->
     CASE c = "A" -> "a" [] c = "N" -> "n" [] c = "E" -> "e" [] c = "T" -> "t"
       [] c = "P" -> "p" [] c = "I" -> "i" [] c = "M" -> "m" [] c = "G" -> "g"]

\* String.prototype.toLowerCase, on the letters the model's names use.
ToLowerCase(s) ==
  [n \in 1..Len(s) |-> IF s[n] \in DOMAIN Lower THEN Lower[s[n]] ELSE s[n]]

\* String.prototype.endsWith.
EndsWith(s, suffix) ==
  /\ Len(s) >= Len(suffix)
  /\ SubSeq(s, Len(s) - Len(suffix) + 1, Len(s)) = suffix

\* String.prototype.startsWith.
StartsWith(s, prefix) ==
  /\ Len(s) >= Len(prefix)
  /\ SubSeq(s, 1, Len(prefix)) = prefix

DigitChar == <<"0", "1", "2", "3", "4", "5", "6", "7", "8", "9">>

RECURSIVE Decimal(_)
\* The decimal numeral of a natural number.
Decimal(n) ==
  IF n < 10 THEN <<DigitChar[n + 1]>>
  ELSE Decimal(n \div 10) \o <<DigitChar[(n % 10) + 1]>>

\* ---------------------------------------------------------- formatFileSize
k == 1024

sizes == << <<"B", "y", "t", "e", "s">>, <<"K", "B">>, <<"M", "B">>, <<"G", "B">> >>

Undefined == <<"u", "n", "d", "e", "f", "i", "n", "e", "d">>

\* Math.floor(Math.log(bytes) / Math.log(k)) for bytes > 0: the index of the
\* leading base-1024 digit (the floating-point quotient is exact enough for
\* every count below 1024^5).
LogIndex(bytes) == Len(bytes) - 1

RECURSIVE CarryOut(_, _)
\* floor(200 * (bytes mod 1024^n) / 1024^n), digit by digit.
CarryOut(bytes, n) ==
  IF n = 0 THEN 0 ELSE (200 * bytes[n] + CarryOut(bytes, n - 1)) \div k

\* (bytes / Math.pow(k, i)).toFixed(2), read back by parseFloat: the quotient
\* rounded half-up to hundredths, as a count of hundredths.  The division by a
\* power of two is exact in a double, and toFixed rounds the exact value.
ToFixed2(bytes, i) ==
  100 * bytes[i + 1] + (CarryOut(bytes, i) + 1) \div 2

\* Number-to-string conversion of a value with at most two decimals (the
\* shortest numeral: no trailing zero decimals, no decimal point if whole).
NumberToString(hundredths) ==
  LET whole == hundredths \div 100
      frac == hundredths % 100
  IN  IF frac = 0 THEN Decimal(whole)
      ELSE IF frac % 10 = 0
        THEN Decimal(whole) \o <<".">> \o <<DigitChar[(frac \div 10) + 1]>>
        ELSE Decimal(whole) \o <<".">> \o <<DigitChar[(frac \div 10) + 1]>>
               \o <<DigitChar[(frac % 10) + 1]>>

\* sizes[i] followed by string concatenation: an index past the array reads
\* undefined, which concatenates as "undefined".
SizesAt(i) == IF i + 1 \in DOMAIN sizes THEN sizes[i + 1] ELSE Undefined

formatFileSize(bytes) ==
  IF bytes = <<>> THEN <<"0", " ">> \o sizes[1]
  ELSE LET i == LogIndex(bytes)
       IN  NumberToString(ToFixed2(bytes, i)) \o <<" ">> \o SizesAt(i)

\* ------------------------------------------------------------------- files
\* The File objects a user may pick or drop: name, declared type, size.
Files ==
  { [name |-> <<"n", "e", "t", ".", "p", "t">>, type |-> <<>>, size |-> <<>>],
    [name |-> <<"N", "E", "T", ".", "P", "T">>,
     type |-> <<"i", "m", "a", "g", "e", "/", "p", "n", "g">>,
     size |-> <<512, 1>>],
    [name |-> <<"a", ".", "p", "n", "g">>,
     type |-> <<"i", "m", "a", "g", "e", "/">>, size |-> <<1023, 1023>>],
    [name |-> <<"p", "t">>, type |-> <<"t", "e", "x", "t", "/", "p">>,
     size |-> <<1023>>],
    [name |-> <<"a", ".", "p", "t", "x">>,
     type |-> <<"I", "M", "A", "G", "E", "/", "p", "n", "g">>,
     size |-> <<0, 256, 5>>],
    [name |-> <<".", "p", "t", ".", "p", "n", "g">>,
     type |-> <<"i", "m", "a", "g", "e">>, size |-> <<0, 0, 0, 1>>] }

\* The file lists a drop event may carry (dataTransfer.files): none, one
\* file, or a file followed by a second one.
SecondFile == CHOOSE f \in Files : f.size = <<512, 1>>

DropLists ==
  {<<>>} \cup {<<f>> : f \in Files} \cup {<<f, SecondFile>> : f \in Files}

ModelFormatError ==
  [message |-> "Please upload a valid PyTorch model file (.pt)"]
ImageFormatError == [message |-> "Please upload a valid image file"]

\* ------------------------------------------------------------ Math.random
\* Values of Math.random(), in thousandths.
RandomValues == {0, 999}

\* ------------------------------------------------------------------- state
VARIABLES
  model,        \* useState<UploadedModel | null>
  image,        \* useState<UploadedImage | null>
  isAnalyzing,  \* useState(false)
  result,       \* useState<AnalysisResult | null>
  error,        \* useState<string | null>
  pending,      \* runAnalysis calls suspended at their await, each with the
                \* model and image its closure captured
  nextUrl,      \* the next object URL URL.createObjectURL hands out
  revoked,      \* number of URL.revokeObjectURL calls per object URL
  clock,        \* the instant new Date() reads at the next model upload
  origin,       \* history: the captured model and image of the analysis
                \* that stored the current result
  last          \* history: the latest event and the file it carried

vars ==
  <<model, image, isAnalyzing, result, error, pending, nextUrl, revoked,
    clock, origin, last>>

Init ==
  /\ model = Null
  /\ image = Null
  /\ isAnalyzing = FALSE
  /\ result = Null
  /\ error = Null
  /\ pending = <<>>
  /\ nextUrl = 1
  /\ revoked = [u \in 1..MaxUrls |-> 0]
  /\ clock = 1
  /\ origin = Null
  /\ last = [op |-> "init", file |-> Null]

\* The cells a handler may write; origin and last are history variables that
\* the events maintain.
cells ==
  <<model, image, isAnalyzing, result, error, pending, nextUrl, revoked, clock>>

\* ---------------------------------------------------------------- handlers
\* Mutant: the name is compared without toLowerCase().
IsModelFileName_CaseSensitive(name) == EndsWith(name, <<".", "p", "t">>)

\* file.name.toLowerCase().endsWith('.pt')
IsModelFileName(name) == EndsWith(ToLowerCase(name), <<".", "p", "t">>)

\* Mutant: the prefix lacks its slash.
IsImageType_NoSlash(type) == StartsWith(type, <<"i", "m", "a", "g", "e">>)

\* file.type.startsWith('image/')
IsImageType(type) == StartsWith(type, <<"i", "m", "a", "g", "e", "/">>)

handleModelUpload(file) ==
  IF ~IsModelFileName(file.name)
  THEN /\ error' = ModelFormatError
       /\ UNCHANGED <<model, image, isAnalyzing, result, pending, nextUrl,
                      revoked, clock, origin>>
  ELSE /\ model' = [file |-> file, name |-> file.name,
                    size |-> formatFileSize(file.size), uploadedAt |-> clock]
       /\ clock' = clock + 1
       /\ error' = Null
       /\ UNCHANGED <<image, isAnalyzing, result, pending, nextUrl, revoked,
                      origin>>

handleImageUpload(file) ==
  IF ~IsImageType(file.type)
  THEN /\ error' = ImageFormatError
       /\ UNCHANGED <<model, image, isAnalyzing, result, pending, nextUrl,
                      revoked, clock, origin>>
  ELSE /\ image' = [file |-> file, url |-> nextUrl, name |-> file.name,
                    size |-> formatFileSize(file.size)]
       /\ nextUrl' = nextUrl + 1
       /\ error' = Null
       /\ result' = Null
       /\ origin' = Null
       /\ UNCHANGED <<model, isAnalyzing, pending, revoked, clock>>

\* Mutant: && where the code has ||.
FilesMissing_Both == model = Null /\ image = Null

\* !model || !image
FilesMissing == model = Null \/ image = Null

\* Mutant: the prior result is not cleared at the start.
runAnalysis_KeepsResult(r) ==
  IF FilesMissing
  THEN UNCHANGED <<cells, origin>>
  ELSE /\ isAnalyzing' = TRUE
       /\ error' = Null
       /\ pending' = Append(pending, [model |-> model, image |-> image,
                                      delay |-> 2000 + 3 * r])
       /\ UNCHANGED <<model, image, result, origin, nextUrl, revoked, clock>>

\* runAnalysis up to its await: the early return, the three state writes and
\* the timer of 2000 + Math.random() * 3000 ms it suspends on.
runAnalysis(r) ==
  IF FilesMissing
  THEN UNCHANGED <<cells, origin>>
  ELSE /\ isAnalyzing' = TRUE
       /\ error' = Null
       /\ result' = Null
       /\ origin' = Null
       /\ pending' = Append(pending, [model |-> model, image |-> image,
                                      delay |-> 2000 + 3 * r])
       /\ UNCHANGED <<model, image, nextUrl, revoked, clock>>

\* Mutant: the confidence spans 0.25 instead of 0.24.
mockResult_WideConfidence(r1, r2, r3) ==
  [isOriginal |-> r1 > 500,
   confidence |-> 75000 + r2 * 25,
   processingTime |-> 12000 + r3 * 23]

\* The mock result: isOriginal, confidence in units of 10^-5, processingTime
\* in units of 10^-4 s, from three values of Math.random() in thousandths.
mockResult(r1, r2, r3) ==
  [isOriginal |-> r1 > 500,
   confidence |-> 75000 + r2 * 24,
   processingTime |-> 12000 + r3 * 23]

Remove(seq, n) == SubSeq(seq, 1, n - 1) \o SubSeq(seq, n + 1, Len(seq))

\* Mutant: the busy flag is not cleared on completion.
resumeAnalysis_StaysBusy(n, r1, r2, r3) ==
  /\ result' = mockResult(r1, r2, r3)
  /\ origin' = [model |-> pending[n].model, image |-> pending[n].image]
  /\ pending' = Remove(pending, n)
  /\ UNCHANGED <<model, image, isAnalyzing, error, nextUrl, revoked, clock>>

\* runAnalysis after its await: the timer of the n-th suspended call fired.
\* The awaited promise only resolves, so the catch block never runs.
resumeAnalysis(n, r1, r2, r3) ==
  /\ result' = mockResult(r1, r2, r3)
  /\ origin' = [model |-> pending[n].model, image |-> pending[n].image]
  /\ isAnalyzing' = FALSE
  /\ pending' = Remove(pending, n)
  /\ UNCHANGED <<model, image, error, nextUrl, revoked, clock>>

\* Mutant: the result is not cleared with the model.
clearModel_KeepsResult ==
  /\ model' = Null
  /\ UNCHANGED <<image, isAnalyzing, result, origin, error, pending, nextUrl,
                 revoked, clock>>

\* modelInputRef.current is null while a model is stored (the input is not
\* rendered), so the reset of its value does nothing.
clearModel ==
  /\ model' = Null
  /\ result' = Null
  /\ origin' = Null
  /\ UNCHANGED <<image, isAnalyzing, error, pending, nextUrl, revoked, clock>>

\* Mutant: the object URL is not revoked.
clearImage_NoRevoke ==
  /\ image' = Null
  /\ result' = Null
  /\ origin' = Null
  /\ UNCHANGED <<model, isAnalyzing, error, pending, nextUrl, revoked, clock>>

\* Mutant: the image is not removed after its object URL is revoked.
clearImage_KeepsImage ==
  /\ revoked' = IF image # Null
                  THEN [revoked EXCEPT ![image.url] = @ + 1]
                  ELSE revoked
  /\ result' = Null
  /\ origin' = Null
  /\ UNCHANGED <<model, image, isAnalyzing, error, pending, nextUrl, clock>>

clearImage ==
  /\ revoked' = IF image # Null
                  THEN [revoked EXCEPT ![image.url] = @ + 1]
                  ELSE revoked
  /\ image' = Null
  /\ result' = Null
  /\ origin' = Null
  /\ UNCHANGED <<model, isAnalyzing, error, pending, nextUrl, clock>>

\* ------------------------------------------------------------------ events
\* The model drop zone and file input are rendered only while no model is
\* stored; likewise for the image.
ModelZoneRendered == model = Null
ImageZoneRendered == image = Null

\* Mutant: the button is not disabled while an analysis runs.
AnalysisButtonDisabled_IgnoresBusy == FilesMissing

\* disabled={!model || !image || isAnalyzing}
AnalysisButtonDisabled == FilesMissing \/ isAnalyzing

\* Room for one more upload within the bounds.
ModelRoom(file) == IsModelFileName(file.name) => clock <= MaxClock
ImageRoom(file) == IsImageType(file.type) => nextUrl <= MaxUrls

\* onChange of the model file input.
ModelInputChange ==
  \E file \in Files :
    /\ ModelZoneRendered
    /\ ModelRoom(file)
    /\ handleModelUpload(file)
    /\ last' = [op |-> "submitModel", file |-> file]

\* onChange of the image file input.
ImageInputChange ==
  \E file \in Files :
    /\ ImageZoneRendered
    /\ ImageRoom(file)
    /\ handleImageUpload(file)
    /\ last' = [op |-> "submitImage", file |-> file]

\* onDrop of a drop zone: the first dropped file, if any, is uploaded.
handleDrop(type, files) ==
  IF Len(files) > 0
  THEN IF type = "model"
       THEN /\ ModelRoom(files[1])
            /\ handleModelUpload(files[1])
            /\ last' = [op |-> "submitModel", file |-> files[1]]
       ELSE /\ ImageRoom(files[1])
            /\ handleImageUpload(files[1])
            /\ last' = [op |-> "submitImage", file |-> files[1]]
  ELSE /\ UNCHANGED <<cells, origin>>
       /\ last' = [op |-> "emptyDrop", file |-> Null]

ModelDrop ==
  \E files \in DropLists : ModelZoneRendered /\ handleDrop("model", files)

ImageDrop ==
  \E files \in DropLists : ImageZoneRendered /\ handleDrop("image", files)

\* onClick of the trash button of the model card, rendered while a model is
\* stored.
ClearModelClick ==
  /\ model # Null
  /\ clearModel
  /\ last' = [op |-> "clearModel", file |-> Null]

\* onClick of the trash button of the image card.
ClearImageClick ==
  /\ image # Null
  /\ clearImage
  /\ last' = [op |-> "clearImage", file |-> Null]

\* A click on the analysis button: a disabled button delivers no event.
AnalysisClick ==
  /\ last' = [op |-> "runAnalysis", file |-> Null]
  /\ IF AnalysisButtonDisabled
     THEN UNCHANGED <<cells, origin>>
     ELSE /\ Len(pending) < MaxInFlight
          /\ \E r \in RandomValues : runAnalysis(r)

\* The timer of a suspended analysis fires.
AnalysisTimer ==
  /\ \E n \in 1..Len(pending) :
       \E r1 \in RandomValues, r2 \in RandomValues, r3 \in RandomValues :
         resumeAnalysis(n, r1, r2, r3)
  /\ last' = [op |-> "analysisDone", file |-> Null]

\* onClick of the close button of the error alert: setError(null).
DismissError ==
  /\ error # Null
  /\ error' = Null
  /\ UNCHANGED <<model, image, isAnalyzing, result, pending, nextUrl,
                 revoked, clock, origin>>
  /\ last' = [op |-> "dismissError", file |-> Null]

Next ==
  \/ ModelInputChange
  \/ ImageInputChange
  \/ ModelDrop
  \/ ImageDrop
  \/ ClearModelClick
  \/ ClearImageClick
  \/ AnalysisClick
  \/ AnalysisTimer
  \/ DismissError

Spec == Init /\ [][Next]_vars

\* ------------------------------------------------- formatFileSize at large
\* The byte counts of at most MaxDigits base-1024 digits drawn from
\* DigitChoices (0 up to 1024^MaxDigits - 1).
DigitChoices == {0, 1, 512, 1023}

ByteCounts ==
  UNION { {b \in [1..n -> DigitChoices] : n = 0 \/ b[n] # 0} : n \in 0..MaxDigits }

\* onChange of the model file input with a file "net.pt" of any such size:
\* handleModelUpload stores formatFileSize(file.size).
SizedModelInputChange ==
  \E bytes \in ByteCounts :
    LET file == [name |-> <<"n", "e", "t", ".", "p", "t">>, type |-> <<>>,
                 size |-> bytes]
    IN  /\ ModelZoneRendered
        /\ ModelRoom(file)
        /\ handleModelUpload(file)
        /\ last' = [op |-> "submitModel", file |-> file]

SizeNext == SizedModelInputChange \/ ClearModelClick

SizeSpec == Init /\ [][SizeNext]_vars

\* ----------------------------------------------------- mockResult at large
\* A finer choice of values of Math.random(), in thousandths: both ends of
\* [0, 1), both sides of 0.5 and points between.
FineRandomValues == {0, 1, 250, 500, 501, 750, 998, 999}

\* The timer of a suspended analysis fires, with the finer random values.
FineAnalysisTimer ==
  /\ \E n \in 1..Len(pending) :
       \E r1 \in FineRandomValues, r2 \in FineRandomValues,
          r3 \in FineRandomValues :
         resumeAnalysis(n, r1, r2, r3)
  /\ last' = [op |-> "analysisDone", file |-> Null]

ResultNext ==
  \/ ModelInputChange
  \/ ImageInputChange
  \/ AnalysisClick
  \/ FineAnalysisTimer

ResultSpec == Init /\ [][ResultNext]_vars

\* The event loop runs every timer that is due.
FairSpec == Spec /\ WF_vars(AnalysisTimer)

\* ================================================================== claims
\* A name whose last three characters are ".pt" in any mix of cases.
HasPtSuffix(name) ==
  /\ Len(name) >= 3
  /\ name[Len(name) - 2] = "."
  /\ name[Len(name) - 1] \in {"p", "P"}
  /\ name[Len(name)] \in {"t", "T"}

\* A declared content-type whose first six characters are "image/".
DeclaresImage(type) ==
  /\ Len(type) >= 6
  /\ <<type[1], type[2], type[3], type[4], type[5]>>
       = <<"i", "m", "a", "g", "e">>
  /\ type[6] = "/"

\* C1: a model upload is accepted if and only if the file name ends in ".pt"
\* compared case-insensitively; on acceptance the stored model is that file
\* under its own name and the error is cleared; on rejection the error is the
\* invalid-format message and model, image and result are unchanged.
C1_SubmitModelContract ==
  [][last'.op = "submitModel" =>
       IF HasPtSuffix(last'.file.name)
       THEN /\ model' # Null
            /\ model'.file = last'.file
            /\ model'.name = last'.file.name
            /\ error' = Null
       ELSE /\ error' = ModelFormatError
            /\ model' = model
            /\ image' = image
            /\ result' = result]_vars

\* An upper-case ".PT" name was accepted while an image was stored.
C1_Witness ==
  /\ last.op = "submitModel"
  /\ last.file.name = <<"N", "E", "T", ".", "P", "T">>
  /\ model # Null
  /\ model.name = last.file.name
  /\ image # Null
  /\ error = Null

\* C2: an image upload whose declared content-type does not start with
\* "image/" sets the invalid-format error, acquires no preview handle and
\* leaves image, model and result unchanged.
C2_SubmitImageRejects ==
  [][(last'.op = "submitImage" /\ ~DeclaresImage(last'.file.type)) =>
       /\ error' = ImageFormatError
       /\ nextUrl' = nextUrl
       /\ revoked' = revoked
       /\ image' = image
       /\ model' = model
       /\ result' = result]_vars

\* A file of type "image" (no slash) was rejected while a model was stored.
C2_Witness ==
  /\ last.op = "submitImage"
  /\ last.file.type = <<"i", "m", "a", "g", "e">>
  /\ error = ImageFormatError
  /\ image = Null
  /\ model # Null
  /\ nextUrl = 1

\* C3: after every successful image upload and every successful model upload
\* the stored result is absent.
C3_UploadClearsResult ==
  [][(\/ last'.op = "submitModel" /\ HasPtSuffix(last'.file.name)
      \/ last'.op = "submitImage" /\ DeclaresImage(last'.file.type))
       => result' = Null]_vars

\* C4: a run trigger while the model or the image is absent changes nothing
\* and starts no analysis; hence every suspended analysis, and the analysis
\* behind every stored result, was started with both a model and an image.
C4_RunNeedsBothFiles ==
  /\ [][(last'.op = "runAnalysis" /\ (model = Null \/ image = Null)) =>
          /\ UNCHANGED <<model, image, result, error, isAnalyzing>>
          /\ pending' = pending]_vars
  /\ [](/\ \A n \in 1..Len(pending) :
             pending[n].model # Null /\ pending[n].image # Null
        /\ result # Null => (origin.model # Null /\ origin.image # Null))

\* Run was triggered with a model but no image, and nothing was started.
C4_Witness ==
  /\ last.op = "runAnalysis"
  /\ model # Null
  /\ image = Null
  /\ pending = <<>>
  /\ ~isAnalyzing
  /\ result = Null

\* C5: a run trigger while an analysis is suspended changes nothing, and at
\* most one analysis is in flight in every reachable state.
C5_AtMostOneInFlight ==
  /\ [][(last'.op = "runAnalysis" /\ pending # <<>>) =>
          /\ UNCHANGED <<model, image, result, error, isAnalyzing>>
          /\ pending' = pending]_vars
  /\ [](Len(pending) <= 1)

\* Run was triggered while an analysis was in flight: the model has been
\* replaced since that analysis started, and still only it is in flight.
C5_Witness ==
  /\ last.op = "runAnalysis"
  /\ Len(pending) = 1
  /\ isAnalyzing
  /\ model # Null
  /\ image # Null
  /\ pending[1].model # model

\* C6: whenever the busy flag is set, an analysis has been started and has
\* not yet completed.
C6_BusyOnlyWhileInFlight == isAnalyzing => Len(pending) > 0

\* The busy flag is set and an analysis is in flight, although the model it
\* was started with has since been removed.
C6_Witness ==
  /\ isAnalyzing
  /\ Len(pending) = 1
  /\ model = Null
  /\ last.op = "clearModel"

\* The preview handles acquired and not yet released.
LiveHandles == {u \in 1..(nextUrl - 1) : revoked[u] = 0}

C8_SingleRelease ==
  /\ [][last'.op = "clearImage" =>
          /\ image # Null
          /\ revoked' = [revoked EXCEPT ![image.url] = revoked[image.url] + 1]]_vars
  /\ [](/\ \A u \in DOMAIN revoked : revoked[u] <= 1
        /\ image # Null => revoked[image.url] = 0)

\* Two images were stored and removed in turn, each handle released once.
C8_Witness ==
  /\ last.op = "clearImage"
  /\ image = Null
  /\ nextUrl = 3
  /\ revoked[1] = 1
  /\ revoked[2] = 1

\* C9: a run trigger with model and image stored and no analysis running
\* sets the busy flag and clears the error and the result; the started
\* analysis eventually completes; the completion stores a result, clears the
\* busy flag and leaves the error as it was.
C9_StartThenComplete ==
  /\ [][(last'.op = "runAnalysis"
           /\ model # Null /\ image # Null /\ ~isAnalyzing) =>
          /\ isAnalyzing'
          /\ error' = Null
          /\ result' = Null
          /\ Len(pending') = Len(pending) + 1]_vars
  /\ [][last'.op = "analysisDone" =>
          /\ result' # Null
          /\ ~isAnalyzing'
          /\ error' = error
          /\ Len(pending') = Len(pending) - 1]_vars
  /\ (pending # <<>>) ~> (last.op = "analysisDone" /\ pending = <<>>)

\* An analysis has completed: its result is stored, the busy flag is clear
\* and no error is set.
C9_Witness ==
  /\ last.op = "analysisDone"
  /\ result # Null
  /\ origin.model = model
  /\ origin.image = image
  /\ ~isAnalyzing
  /\ pending = <<>>
  /\ error = Null

\* The unit names of the claim, by power of 1024.
UnitNames ==
  << <<"B", "y", "t", "e", "s">>, <<"K", "B">>, <<"M", "B">>, <<"G", "B">> >>

\* A decimal numeral with at most two decimals.
IsNumeral(num) ==
  LET dots == {q \in 1..Len(num) : num[q] = "."}
  IN  /\ Len(num) >= 1
      /\ Cardinality(dots) <= 1
      /\ \A q \in (1..Len(num)) \ dots :
           num[q] \in {"0", "1", "2", "3", "4", "5", "6", "7", "8", "9"}
      /\ \A q \in dots : q >= 2 /\ (Len(num) - q) \in {1, 2}

\* The largest unit whose power of 1024 does not exceed a positive count:
\* 1024^j <= bytes exactly if bytes has more than j base-1024 digits.
LargestUnit(bytes) ==
  LET fits == {j \in 0..3 : Len(bytes) > j}
  IN  UnitNames[(CHOOSE j \in fits : \A i \in fits : i <= j) + 1]

\* "<number> <unit>" with the number of at most two decimals and the unit
\* the largest that fits.
WellFormatted(bytes, text) ==
  LET spaces == {q \in 1..Len(text) : text[q] = " "}
  IN  /\ Cardinality(spaces) = 1
      /\ \A q \in spaces :
           /\ IsNumeral(SubSeq(text, 1, q - 1))
           /\ SubSeq(text, q + 1, Len(text)) = LargestUnit(bytes)

\* C10: for every byte count b >= 0 the formatted size is "<number> <unit>"
\* with the unit in {Bytes, KB, MB, GB}, the largest whose power of 1024 does
\* not exceed b, and the number of at most two decimals; 0 gives "0 Bytes".
C10_FormatContract ==
  model # Null =>
    IF model.file.size = <<>>
    THEN model.size = <<"0", " ", "B", "y", "t", "e", "s">>
    ELSE WellFormatted(model.file.size, model.size)


\* C11: every completion of an analysis stores a result whose isOriginal is
\* a boolean, whose confidence lies in [0.75, 0.99] (units of 10^-5) and whose
\* processingTime lies in [1.2, 3.5] s (units of 10^-4 s), whatever Math.random
\* returned and whatever the delay of the timer was.
C11_ResultRanges ==
  [][last'.op = "analysisDone" =>
       /\ pending # <<>>
       /\ \E n \in 1..Len(pending) : pending[n].delay \in 2000..5000
       /\ result' # Null
       /\ result'.isOriginal \in BOOLEAN
       /\ result'.confidence >= 75000
       /\ result'.confidence <= 99000
       /\ result'.processingTime >= 12000
       /\ result'.processingTime <= 35000]_vars

\* A completion stored the largest confidence and the largest processing
\* time that the random values give.
C11_Witness ==
  /\ last.op = "analysisDone"
  /\ result # Null
  /\ result.isOriginal
  /\ result.confidence = 75000 + 999 * 24
  /\ result.processingTime = 12000 + 999 * 23


\* C12: clearModel removes the model and the result and changes neither the
\* image, the released handles, the error nor the busy flag; clearImage
\* removes the image and the result and changes neither the model, the error
\* nor the busy flag.
C12_ClearFrames ==
  /\ [][last'.op = "clearModel" =>
          /\ model' = Null
          /\ result' = Null
          /\ image' = image
          /\ revoked' = revoked
          /\ nextUrl' = nextUrl
          /\ error' = error
          /\ isAnalyzing' = isAnalyzing
          /\ pending' = pending]_vars
  /\ [][last'.op = "clearImage" =>
          /\ image' = Null
          /\ result' = Null
          /\ model' = model
          /\ error' = error
          /\ isAnalyzing' = isAnalyzing
          /\ pending' = pending]_vars

\* The model was removed while an error was shown and an analysis was in
\* flight: the error and the busy flag are still there, the result is not.
C12_Witness ==
  /\ last.op = "clearModel"
  /\ model = Null
  /\ result = Null
  /\ error # Null
  /\ isAnalyzing
  /\ pending # <<>>


\* C13: whenever a result is stored, a model and an image are stored and they
\* are the ones that were stored when the analysis behind the result started.
C13_ResultMatchesFiles ==
  result # Null =>
    /\ model # Null
    /\ image # Null
    /\ origin.model = model
    /\ origin.image = image

====
